---- MODULE Spec2Model ----
(***************************************************************************)
(* Flame-hash: the chunked SHA3-256 hasher (src/services/hashService.ts),  *)
(* the metadata summarizer (src/services/geminiService.ts) and the         *)
(* processFile workflow of the React component (src/App.tsx).              *)
(*                                                                         *)
(* A byte of a file is identified by its position, a byte range by the    *)
(* pair <<start, end>> (end exclusive), and the message absorbed by the    *)
(* SHA3 accumulator by the sequence of maximal ranges it is made of.       *)
(* File sizes are taken around the multiples of the real chunk size.       *)
(***************************************************************************)
EXTENDS Integers, Sequences, FiniteSets

\* ---------------------------------------------------------------- bounds
MaxChunks == 3          \* hasher runs: files of up to MaxChunks chunks (+1 byte)
MaxOps == 2             \* application runs: processFile calls per behaviour
AppMaxChunks == 1       \* application runs: files of 1 byte and of AppMaxChunks chunks + 1 byte

MaxDigits == 6          \* formatBytes runs: arguments below 1024^MaxDigits

\* ------------------------------------------------------------- constants
chunkSize == 1048576    \* 1024 * 1024

Ops == 1..MaxOps

Min(a, b) == IF a < b THEN a ELSE b

\* Sizes of the files hashed directly: 0, 1, and around every chunk boundary.
FileSizes ==
  {0, 1} \cup { n \in { k * chunkSize + d : k \in 1..MaxChunks, d \in {-1, 0, 1} } : n > 0 }
         \cup { k * chunkSize + (chunkSize \div 2) : k \in 0..(MaxChunks - 1) }

\* Sizes of the files the application is given: one byte, and one byte past
\* AppMaxChunks chunks.
AppFileSizes == {1, AppMaxChunks * chunkSize + 1}

\* ------------------------------------------------------- pure functions
\* Blob.slice(start, end) on a blob of `size` bytes: both ends clamped.
SliceNoClamp(size, start, end) == <<start, end>>
Slice(size, start, end) ==
  LET s == Min(start, size)
      e == Min(end, size)
  IN  <<s, IF e < s THEN s ELSE e>>

\* Math.min(100, Math.round((offset / size) * 100)); x / 0 is Infinity for x > 0.
\* Math.round rounds halves up: round(p / q) = floor((2p + q) / 2q).
ProgressNoClamp(off, size) ==
  IF size = 0 THEN 100 ELSE (200 * off + size) \div (2 * size)
ProgressZeroSize(off, size) ==
  IF size = 0 THEN 0 ELSE Min(100, (200 * off + size) \div (2 * size))
ProgressFloorRatio(off, size) ==
  IF size = 0 THEN 100 ELSE Min(100, (off \div size) * 100)
ProgressOf(off, size) ==
  IF size = 0 THEN 100 ELSE Min(100, (200 * off + size) \div (2 * size))

\* hasher.update(bytes): the accumulator absorbs the bytes after those it holds.
HasherUpdate(acc, r) ==
  IF r[1] = r[2] THEN acc
  ELSE IF Len(acc) > 0 /\ acc[Len(acc)][2] = r[1]
       THEN [acc EXCEPT ![Len(acc)] = <<acc[Len(acc)][1], r[2]>>]
       ELSE Append(acc, r)

\* hasher.hex(): the digest, a function of the absorbed message alone.
NoDigest == [hex |-> FALSE, msg |-> <<>>]
HasherHex(acc) == [hex |-> TRUE, msg |-> acc]

\* The module check of calculateSHA3_256: the primitive exists and has create().
Sha3AvailableNoCreateCheck(m) == m # "missing"
Sha3Available(m) == m = "ok"

\* analyzeFileMetadata: what the summarizer returns for each way its request ends.
analyzeFileMetadata(outcome) ==
  CASE outcome = "text"  -> "summary"
    [] outcome = "empty" -> "AI Analysis unavailable."
    [] outcome = "error" -> "Could not perform AI analysis at this time."

\* formatBytes. Its argument can exceed the integers of the checker, so a byte
\* count is written in base k = 1024, lowest digit first, without leading
\* zeros: <<0, 1>> is 1024, <<1023, 1023>> is 1024^2 - 1, <<0>> is 0. The
\* returned string is modelled by its unit; the number in front is not modelled.
k == 1024
sizes == <<"Bytes", "KB", "MB", "GB", "TB">>

FormatDigits == {0, 1, k - 1}
AllNines(d) == \A j \in 1..Len(d) : d[j] = k - 1
FormatInputs ==
  {<<0>>} \cup UNION { { d \in [1..n -> FormatDigits] : d[n] # 0 /\ ~(n >= 5 /\ AllNines(d)) }
                       : n \in 1..MaxDigits }

\* Math.floor(Math.log(bytes) / Math.log(k)) for bytes >= 1: one less than the
\* number of base-k digits. (The arguments k^n - 1 with n >= 5, for which the
\* quotient in double arithmetic lies within rounding of n, are not drawn.)
LogFloor(bytes) == Len(bytes) - 1

\* sizes[i]: reading past the end of the array gives undefined.
SizesAt(i) == IF i + 1 \in DOMAIN sizes THEN sizes[i + 1] ELSE "undefined"

NotFormatted == [zero |-> FALSE, unit |-> ""]
formatBytes(bytes) ==
  IF bytes = <<0>> THEN [zero |-> TRUE, unit |-> "Bytes"]
  ELSE [zero |-> FALSE, unit |-> SizesAt(LogFloor(bytes))]

\* ---------------------------------------------------------------- state
VARIABLES
  results,        \* App: history list of FileResult records
  status,         \* App: HashStatus
  progress,       \* App: progress state
  errorMsg,       \* App: error message, "null" when none
  pickerOpen,     \* the file picker dialog is open
  sha3Module,     \* what the js-sha3 import provides: "ok", "missing", "nocreate"
  nextOp,         \* number of calculateSHA3_256 calls made so far
  file,           \* file[o]: size of the file of operation o
  proc,           \* proc[o]: position of processFile for operation o
  promise,        \* promise[o]: state of the promise calculateSHA3_256 returned
  digest,         \* digest[o]: value the promise resolved with
  error,          \* error[o]: message the promise rejected with
  reader,         \* reader[o]: FileReader state, "EMPTY", "LOADING", "DONE"
  blob,           \* blob[o]: byte range handed to readAsArrayBuffer
  timer,          \* timer[o]: setTimeout(readNextChunk, 0) is pending
  offset,         \* offset[o]
  hasher,         \* hasher[o]: message absorbed by the accumulator
  updates,        \* updates[o]: byte ranges passed to hasher.update, in order
  hexCalls,       \* hexCalls[o]: number of hasher.hex() calls
  progressCalls,  \* progressCalls[o]: values passed to onProgress, in order
  sumHash,        \* sumHash[o]: hash handed to analyzeFileMetadata
  sumOutcome,     \* sumOutcome[o]: how the summarizer request of o ended
  copiedId,       \* App: copiedId state, 0 when null
  copyTimer,      \* some setTimeout(() => setCopiedId(null), 2000) is pending
  fmtBytes,       \* argument of a formatBytes call
  fmtResult       \* what the formatBytes call returned

uiVars == <<copiedId, copyTimer>>
fmtVars == <<fmtBytes, fmtResult>>
appVars == <<results, status, progress, errorMsg, pickerOpen>>
hashVars == <<file, promise, digest, error, reader, blob, timer, offset, hasher,
              updates, hexCalls, progressCalls>>
vars == <<results, status, progress, errorMsg, pickerOpen, sha3Module, nextOp, file,
          proc, promise, digest, error, reader, blob, timer, offset, hasher, updates,
          hexCalls, progressCalls, sumHash, sumOutcome, copiedId, copyTimer,
          fmtBytes, fmtResult>>

BaseInit ==
  /\ results = <<>>
  /\ status = "IDLE"
  /\ progress = 0
  /\ errorMsg = "null"
  /\ pickerOpen = FALSE
  /\ sha3Module \in {"ok", "missing", "nocreate"}
  /\ nextOp = 0
  /\ file = [o \in Ops |-> 0]
  /\ proc = [o \in Ops |-> "none"]
  /\ promise = [o \in Ops |-> "none"]
  /\ digest = [o \in Ops |-> NoDigest]
  /\ error = [o \in Ops |-> ""]
  /\ reader = [o \in Ops |-> "EMPTY"]
  /\ blob = [o \in Ops |-> <<0, 0>>]
  /\ timer = [o \in Ops |-> FALSE]
  /\ offset = [o \in Ops |-> 0]
  /\ hasher = [o \in Ops |-> <<>>]
  /\ updates = [o \in Ops |-> <<>>]
  /\ hexCalls = [o \in Ops |-> 0]
  /\ progressCalls = [o \in Ops |-> <<>>]
  /\ sumHash = [o \in Ops |-> NoDigest]
  /\ sumOutcome = [o \in Ops |-> "none"]
  /\ copiedId = 0
  /\ copyTimer = FALSE

Init ==
  /\ BaseInit
  /\ fmtBytes = <<0>>
  /\ fmtResult = NotFormatted

\* A continuation of processFile is queued behind a settled promise: microtasks
\* run before any further event, timer or user action is handled.
MicrotaskPending ==
  \E o \in Ops : proc[o] = "hashing" /\ promise[o] \in {"resolved", "rejected"}

\* ------------------------------------------------------ calculateSHA3_256
\* The promise executor, operation o on a file of `size` bytes: reject when the
\* primitive is unavailable, else create the hasher and the reader and issue
\* the first read (readNextChunk at offset 0).
calculateSHA3_256(o, size) ==
  /\ file' = [file EXCEPT ![o] = size]
  /\ IF ~Sha3Available(sha3Module)
     THEN /\ promise' = [promise EXCEPT ![o] = "rejected"]
          /\ error' = [error EXCEPT ![o] = "SHA3-256 implementation not found in the loaded module."]
          /\ UNCHANGED <<reader, blob>>
     ELSE /\ promise' = [promise EXCEPT ![o] = "pending"]
          /\ blob' = [blob EXCEPT ![o] = Slice(size, 0, 0 + chunkSize)]
          /\ reader' = [reader EXCEPT ![o] = "LOADING"]
          /\ UNCHANGED error
  /\ UNCHANGED <<digest, timer, offset, hasher, updates, hexCalls, progressCalls>>

\* The timer callback: readNextChunk.
readNextChunk(o) ==
  /\ ~MicrotaskPending
  /\ timer[o]
  /\ timer' = [timer EXCEPT ![o] = FALSE]
  /\ blob' = [blob EXCEPT ![o] = Slice(file[o], offset[o], offset[o] + chunkSize)]
  /\ reader' = [reader EXCEPT ![o] = "LOADING"]
  /\ UNCHANGED <<appVars, sha3Module, nextOp, file, proc, promise, digest, error,
                 offset, hasher, updates, hexCalls, progressCalls, sumHash, sumOutcome, uiVars, fmtVars>>

\* reader.onload, the load event carrying the bytes of the blob.
ReaderOnLoadSync(o) ==
  /\ ~MicrotaskPending
  /\ reader[o] = "LOADING"
  /\ hasher' = [hasher EXCEPT ![o] = HasherUpdate(hasher[o], blob[o])]
  /\ updates' = [updates EXCEPT ![o] = Append(updates[o], blob[o])]
  /\ offset' = [offset EXCEPT ![o] = offset[o] + chunkSize]
  /\ LET p == ProgressOf(offset'[o], file[o])
     IN  /\ progressCalls' = [progressCalls EXCEPT ![o] = Append(progressCalls[o], p)]
         /\ progress' = IF proc[o] # "none" THEN p ELSE progress
  /\ IF offset'[o] < file[o]
     THEN /\ blob' = [blob EXCEPT ![o] = Slice(file[o], offset'[o], offset'[o] + chunkSize)]
          /\ reader' = [reader EXCEPT ![o] = "LOADING"]
          /\ UNCHANGED <<promise, digest, hexCalls, timer>>
     ELSE /\ hexCalls' = [hexCalls EXCEPT ![o] = hexCalls[o] + 1]
          /\ IF promise[o] = "pending"
             THEN /\ promise' = [promise EXCEPT ![o] = "resolved"]
                  /\ digest' = [digest EXCEPT ![o] = HasherHex(hasher'[o])]
             ELSE UNCHANGED <<promise, digest>>
          /\ reader' = [reader EXCEPT ![o] = "DONE"]
          /\ UNCHANGED <<timer, blob>>
  /\ UNCHANGED <<results, status, errorMsg, pickerOpen, sha3Module, nextOp, file,
                 proc, error, sumHash, sumOutcome, uiVars, fmtVars>>
ReaderOnLoadNoElse(o) ==
  /\ ~MicrotaskPending
  /\ reader[o] = "LOADING"
  /\ reader' = [reader EXCEPT ![o] = "DONE"]
  /\ hasher' = [hasher EXCEPT ![o] = HasherUpdate(hasher[o], blob[o])]
  /\ updates' = [updates EXCEPT ![o] = Append(updates[o], blob[o])]
  /\ offset' = [offset EXCEPT ![o] = offset[o] + chunkSize]
  /\ LET p == ProgressOf(offset'[o], file[o])
     IN  /\ progressCalls' = [progressCalls EXCEPT ![o] = Append(progressCalls[o], p)]
         /\ progress' = IF proc[o] # "none" THEN p ELSE progress
  /\ timer' = [timer EXCEPT ![o] = TRUE]
  /\ IF offset'[o] < file[o]
     THEN UNCHANGED <<promise, digest, hexCalls>>
     ELSE /\ hexCalls' = [hexCalls EXCEPT ![o] = hexCalls[o] + 1]
          /\ IF promise[o] = "pending"
             THEN /\ promise' = [promise EXCEPT ![o] = "resolved"]
                  /\ digest' = [digest EXCEPT ![o] = HasherHex(hasher'[o])]
             ELSE UNCHANGED <<promise, digest>>
  /\ UNCHANGED <<results, status, errorMsg, pickerOpen, sha3Module, nextOp, file,
                 proc, error, blob, sumHash, sumOutcome, uiVars, fmtVars>>
ReaderOnLoad(o) ==
  /\ ~MicrotaskPending
  /\ reader[o] = "LOADING"
  /\ reader' = [reader EXCEPT ![o] = "DONE"]
  /\ hasher' = [hasher EXCEPT ![o] = HasherUpdate(hasher[o], blob[o])]
  /\ updates' = [updates EXCEPT ![o] = Append(updates[o], blob[o])]
  /\ offset' = [offset EXCEPT ![o] = offset[o] + chunkSize]
  /\ LET p == ProgressOf(offset'[o], file[o])
     IN  /\ progressCalls' = [progressCalls EXCEPT ![o] = Append(progressCalls[o], p)]
         /\ progress' = IF proc[o] # "none" THEN p ELSE progress
  /\ IF offset'[o] < file[o]
     THEN /\ timer' = [timer EXCEPT ![o] = TRUE]
          /\ UNCHANGED <<promise, digest, hexCalls>>
     ELSE /\ hexCalls' = [hexCalls EXCEPT ![o] = hexCalls[o] + 1]
          /\ IF promise[o] = "pending"
             THEN /\ promise' = [promise EXCEPT ![o] = "resolved"]
                  /\ digest' = [digest EXCEPT ![o] = HasherHex(hasher'[o])]
             ELSE UNCHANGED <<promise, digest>>
          /\ UNCHANGED timer
  /\ UNCHANGED <<results, status, errorMsg, pickerOpen, sha3Module, nextOp, file,
                 proc, error, blob, sumHash, sumOutcome, uiVars, fmtVars>>

\* reader.onload, the load event with no result: the handler does nothing.
ReaderOnLoadNoResult(o) ==
  /\ ~MicrotaskPending
  /\ reader[o] = "LOADING"
  /\ reader' = [reader EXCEPT ![o] = "DONE"]
  /\ UNCHANGED <<appVars, sha3Module, nextOp, file, proc, promise, digest, error,
                 blob, timer, offset, hasher, updates, hexCalls, progressCalls, sumHash, sumOutcome, uiVars, fmtVars>>

\* reader.onerror.
ReaderOnErrorRetry(o) ==
  /\ ~MicrotaskPending
  /\ reader[o] = "LOADING"
  /\ reader' = [reader EXCEPT ![o] = "DONE"]
  /\ timer' = [timer EXCEPT ![o] = TRUE]
  /\ IF promise[o] = "pending"
     THEN /\ promise' = [promise EXCEPT ![o] = "rejected"]
          /\ error' = [error EXCEPT ![o] = "Error reading file."]
     ELSE UNCHANGED <<promise, error>>
  /\ UNCHANGED <<appVars, sha3Module, nextOp, file, proc, digest, blob, offset,
                 hasher, updates, hexCalls, progressCalls, sumHash, sumOutcome, uiVars, fmtVars>>
ReaderOnError(o) ==
  /\ ~MicrotaskPending
  /\ reader[o] = "LOADING"
  /\ reader' = [reader EXCEPT ![o] = "DONE"]
  /\ IF promise[o] = "pending"
     THEN /\ promise' = [promise EXCEPT ![o] = "rejected"]
          /\ error' = [error EXCEPT ![o] = "Error reading file."]
     ELSE UNCHANGED <<promise, error>>
  /\ UNCHANGED <<appVars, sha3Module, nextOp, file, proc, digest, blob, timer, offset,
                 hasher, updates, hexCalls, progressCalls, sumHash, sumOutcome, uiVars, fmtVars>>

\* A caller hashes one file directly, with an onProgress callback that records.
HashCall ==
  /\ nextOp = 0
  /\ \E size \in FileSizes : calculateSHA3_256(1, size)
  /\ nextOp' = 1
  /\ UNCHANGED <<appVars, sha3Module, proc, sumHash, sumOutcome, uiVars, fmtVars>>

HashNext ==
  \/ HashCall
  \/ readNextChunk(1)
  \/ ReaderOnLoad(1)
  \/ ReaderOnLoadNoResult(1)
  \/ ReaderOnError(1)

HashSpec == Init /\ [][HashNext]_vars

\* ------------------------------------------------------------ formatBytes
\* A caller formats one byte count.
FormatInit ==
  /\ BaseInit
  /\ fmtBytes \in FormatInputs
  /\ fmtResult = NotFormatted

FormatCall ==
  /\ fmtResult = NotFormatted
  /\ fmtResult' = formatBytes(fmtBytes)
  /\ UNCHANGED <<appVars, sha3Module, nextOp, proc, hashVars, sumHash, sumOutcome,
                 uiVars, fmtBytes>>

FormatNext == FormatCall

FormatSpec == FormatInit /\ [][FormatNext]_vars

\* ------------------------------------------------------------ processFile
\* processFile up to its first await: reset the state, call calculateSHA3_256.
processFile(size) ==
  /\ nextOp < MaxOps
  /\ nextOp' = nextOp + 1
  /\ errorMsg' = "null"
  /\ status' = "PROCESSING"
  /\ progress' = 0
  /\ proc' = [proc EXCEPT ![nextOp + 1] = "hashing"]
  /\ calculateSHA3_256(nextOp + 1, size)
  /\ UNCHANGED <<results, sha3Module, sumHash, sumOutcome, uiVars, fmtVars>>

\* processFile resumes with the hash: analyzeFileMetadata is called with it.
ProcessFileHashedNoHash(o) ==
  /\ proc[o] = "hashing"
  /\ promise[o] = "resolved"
  /\ proc' = [proc EXCEPT ![o] = "summarizing"]
  /\ sumHash' = [sumHash EXCEPT ![o] = NoDigest]
  /\ UNCHANGED <<appVars, sha3Module, nextOp, hashVars, sumOutcome, uiVars, fmtVars>>
ProcessFileHashed(o) ==
  /\ proc[o] = "hashing"
  /\ promise[o] = "resolved"
  /\ proc' = [proc EXCEPT ![o] = "summarizing"]
  /\ sumHash' = [sumHash EXCEPT ![o] = digest[o]]
  /\ UNCHANGED <<appVars, sha3Module, nextOp, hashVars, sumOutcome, uiVars, fmtVars>>

\* processFile resumes with the rejection: catch, then finally.
ProcessFileCatchNoReset(o) ==
  /\ proc[o] = "hashing"
  /\ promise[o] = "rejected"
  /\ errorMsg' = IF error[o] # "" THEN error[o] ELSE "Failed to process file."
  /\ status' = "ERROR"
  /\ proc' = [proc EXCEPT ![o] = "failed"]
  /\ UNCHANGED <<results, progress, pickerOpen, sha3Module, nextOp, hashVars, sumHash,
                 sumOutcome, uiVars, fmtVars>>
ProcessFileCatchRecord(o) ==
  /\ proc[o] = "hashing"
  /\ promise[o] = "rejected"
  /\ errorMsg' = IF error[o] # "" THEN error[o] ELSE "Failed to process file."
  /\ status' = "ERROR"
  /\ progress' = 0
  /\ proc' = [proc EXCEPT ![o] = "failed"]
  /\ results' = <<[id |-> o, size |-> file[o], hash |-> NoDigest,
                   aiAnalysis |-> "Analysis pending..."]>> \o results
  /\ UNCHANGED <<pickerOpen, sha3Module, nextOp, hashVars, sumHash, sumOutcome, uiVars,
                 fmtVars>>
ProcessFileCatch(o) ==
  /\ proc[o] = "hashing"
  /\ promise[o] = "rejected"
  /\ errorMsg' = IF error[o] # "" THEN error[o] ELSE "Failed to process file."
  /\ status' = "ERROR"
  /\ progress' = 0
  /\ proc' = [proc EXCEPT ![o] = "failed"]
  /\ UNCHANGED <<results, pickerOpen, sha3Module, nextOp, hashVars, sumHash, sumOutcome, uiVars, fmtVars>>

ProcessFileSummarizedAppend(o, outcome) ==
  /\ ~MicrotaskPending
  /\ proc[o] = "summarizing"
  /\ LET newResult == [id |-> o, size |-> file[o], hash |-> digest[o],
                       aiAnalysis |-> analyzeFileMetadata(outcome)]
     IN  results' = Append(results, newResult)
  /\ status' = "COMPLETED"
  /\ progress' = 0
  /\ proc' = [proc EXCEPT ![o] = "completed"]
  /\ sumOutcome' = [sumOutcome EXCEPT ![o] = outcome]
  /\ UNCHANGED <<errorMsg, pickerOpen, sha3Module, nextOp, hashVars, sumHash, uiVars, fmtVars>>

\* analyzeFileMetadata returns (it catches every failure of its request, so the
\* catch around the call in processFile is never entered): the record is built
\* and prepended, then finally.
ProcessFileSummarized(o, outcome) ==
  /\ ~MicrotaskPending
  /\ proc[o] = "summarizing"
  /\ LET newResult == [id |-> o, size |-> file[o], hash |-> digest[o],
                       aiAnalysis |-> analyzeFileMetadata(outcome)]
     IN  results' = <<newResult>> \o results
  /\ status' = "COMPLETED"
  /\ progress' = 0
  /\ proc' = [proc EXCEPT ![o] = "completed"]
  /\ sumOutcome' = [sumOutcome EXCEPT ![o] = outcome]
  /\ UNCHANGED <<errorMsg, pickerOpen, sha3Module, nextOp, hashVars, sumHash, uiVars, fmtVars>>

\* ------------------------------------------------------------ user events
\* A click on the drop zone opens the file picker; the zone takes no pointer
\* events while status is PROCESSING.
OpenPicker ==
  /\ ~MicrotaskPending
  /\ ~pickerOpen
  /\ status # "PROCESSING"
  /\ pickerOpen' = TRUE
  /\ UNCHANGED <<results, status, progress, errorMsg, sha3Module, nextOp, proc,
                 hashVars, sumHash, sumOutcome, uiVars, fmtVars>>

CancelPicker ==
  /\ ~MicrotaskPending
  /\ pickerOpen
  /\ pickerOpen' = FALSE
  /\ UNCHANGED <<results, status, progress, errorMsg, sha3Module, nextOp, proc,
                 hashVars, sumHash, sumOutcome, uiVars, fmtVars>>

onFileChange ==
  /\ ~MicrotaskPending
  /\ pickerOpen
  /\ pickerOpen' = FALSE
  /\ \E size \in AppFileSizes : processFile(size)

\* The drop handler sits on the outer element, which always takes the event.
onDrop ==
  /\ ~MicrotaskPending
  /\ ~pickerOpen
  /\ UNCHANGED pickerOpen
  /\ \E size \in AppFileSizes : processFile(size)

\* The clear button is rendered while the history is not empty.
clearAll ==
  /\ ~MicrotaskPending
  /\ ~pickerOpen
  /\ Len(results) > 0
  /\ results' = <<>>
  /\ status' = "IDLE"
  /\ errorMsg' = "null"
  /\ UNCHANGED <<progress, pickerOpen, sha3Module, nextOp, proc, hashVars, sumHash,
                 sumOutcome, uiVars, fmtVars>>

Next ==
  \/ OpenPicker
  \/ CancelPicker
  \/ onFileChange
  \/ onDrop
  \/ clearAll
  \/ \E o \in Ops : readNextChunk(o)
  \/ \E o \in Ops : ReaderOnLoad(o)
  \/ \E o \in Ops : ReaderOnLoadNoResult(o)
  \/ \E o \in Ops : ReaderOnError(o)
  \/ \E o \in Ops : ProcessFileHashed(o)
  \/ \E o \in Ops : ProcessFileCatch(o)
  \/ \E o \in Ops, outcome \in {"text", "empty", "error"} : ProcessFileSummarized(o, outcome)

Spec == Init /\ [][Next]_vars

\* ------------------------------------------------- copy button and history
\* copyToClipboard(res.hash, res.id) for the i-th record shown.
copyToClipboard(i) ==
  /\ ~MicrotaskPending
  /\ ~pickerOpen
  /\ i \in 1..Len(results)
  /\ copiedId' = results[i].id
  /\ copyTimer' = TRUE
  /\ UNCHANGED <<appVars, sha3Module, nextOp, proc, hashVars, sumHash, sumOutcome,
                 fmtVars>>

\* The timer callback () => setCopiedId(null). Every click on a copy button
\* sets a timer of its own, so timers of other clicks may remain pending.
CopiedTimeout ==
  /\ ~MicrotaskPending
  /\ copyTimer
  /\ copiedId' = 0
  /\ copyTimer' \in BOOLEAN
  /\ UNCHANGED <<appVars, sha3Module, nextOp, proc, hashVars, sumHash, sumOutcome,
                 fmtVars>>

HistoryNext ==
  \/ Next
  \/ \E i \in 1..MaxOps : copyToClipboard(i)
  \/ CopiedTimeout

HistorySpec == Init /\ [][HistoryNext]_vars

\* ================================================================ claims
Started(o) == promise[o] # "none"

\* The ranges rs, in order, make up [0, size) with no gap, overlap or excess.
Contiguous(rs, size) ==
  /\ Len(rs) > 0
  /\ rs[1][1] = 0
  /\ rs[Len(rs)][2] = size
  /\ \A i \in 1..Len(rs) : 0 <= rs[i][1] /\ rs[i][1] <= rs[i][2] /\ rs[i][2] <= size
  /\ \A i \in 1..(Len(rs) - 1) : rs[i][2] = rs[i + 1][1]

\* Every byte of the file has been passed to hasher.update.
AllConsumed(o) == Len(updates[o]) > 0 /\ updates[o][Len(updates[o])][2] = file[o]

Reported(o, p) == \E i \in 1..Len(progressCalls[o]) : progressCalls[o][i] = p

\* C1: when calculateSHA3_256 resolves, the byte ranges fed to hasher.update,
\* in the order fed, are exactly the file (each byte once, in order, nothing
\* past the end), and the digest is the digest of the file hashed in one piece.
C1_ChunksCoverFile ==
  \A o \in Ops : promise[o] = "resolved" =>
    /\ Contiguous(updates[o], file[o])
    /\ digest[o] = HasherHex(HasherUpdate(<<>>, <<0, file[o]>>))

C1_Witness ==
  /\ promise[1] = "resolved"
  /\ file[1] = 2 * chunkSize + 1
  /\ Len(updates[1]) = 3

\* C2: for a non-empty file the values passed to onProgress are integers in
\* 0..100, never decrease, and the last one before the promise resolves is 100.
C2_ProgressMonotone ==
  \A o \in Ops : file[o] > 0 =>
    /\ \A i \in 1..Len(progressCalls[o]) : progressCalls[o][i] \in 0..100
    /\ \A i, j \in 1..Len(progressCalls[o]) :
         i < j => progressCalls[o][i] <= progressCalls[o][j]
    /\ promise[o] = "resolved" =>
         /\ Len(progressCalls[o]) > 0
         /\ progressCalls[o][Len(progressCalls[o])] = 100

C2_Witness ==
  /\ promise[1] = "resolved"
  /\ file[1] = 2 * chunkSize + (chunkSize \div 2)
  /\ progressCalls[1] = <<40, 80, 100>>

\* C3: onProgress has been called with 100 if and only if every byte of the
\* file has been fed to the accumulator (no 100 while a byte range is unread).
C3_HundredIffAllConsumed ==
  \A o \in Ops : Started(o) => (Reported(o, 100) <=> AllConsumed(o))

\* C4: for a zero-length file the only progress value ever reported is 100, no
\* byte is fed to the accumulator, and the first load resolves the promise with
\* the digest of the empty input.
C4_EmptyFile ==
  \A o \in Ops : (Started(o) /\ file[o] = 0) =>
    /\ \A i \in 1..Len(progressCalls[o]) : progressCalls[o][i] = 100
    /\ hasher[o] = <<>>
    /\ Len(updates[o]) > 0 =>
         /\ promise[o] = "resolved"
         /\ digest[o] = HasherHex(<<>>)
         /\ progressCalls[o] = <<100>>
         /\ hexCalls[o] = 1
         /\ ~timer[o]

C4_Witness ==
  /\ file[1] = 0
  /\ promise[1] = "resolved"
  /\ progressCalls[1] = <<100>>

\* C5: once a read has failed the promise is rejected with the read error, no
\* digest was or is produced, and no read is outstanding or scheduled.
C5_ReadErrorAborts ==
  \A o \in Ops : error[o] = "Error reading file." =>
    /\ promise[o] = "rejected"
    /\ digest[o] = NoDigest
    /\ hexCalls[o] = 0
    /\ reader[o] = "DONE"
    /\ ~timer[o]

C5_Witness ==
  /\ error[1] = "Error reading file."
  /\ file[1] = 3 * chunkSize
  /\ Len(updates[1]) = 1

\* C6: a started operation never stays pending forever. No action settles a
\* pending promise that has neither a read outstanding nor a timer pending, so
\* the claim is: a pending promise always has one of the two.
C6_PendingHasEvent ==
  \A o \in Ops : promise[o] = "pending" => (reader[o] = "LOADING" \/ timer[o])

\* C7: when the SHA3-256 primitive is missing or has no create function the
\* call is rejected with the algorithm error at once: no read is issued, no
\* update is applied and onProgress is never called.
C7_AlgorithmUnavailable ==
  \A o \in Ops : (Started(o) /\ sha3Module # "ok") =>
    /\ promise[o] = "rejected"
    /\ error[o] = "SHA3-256 implementation not found in the loaded module."
    /\ reader[o] = "EMPTY"
    /\ ~timer[o]
    /\ updates[o] = <<>>
    /\ progressCalls[o] = <<>>
    /\ hexCalls[o] = 0

C7_Witness ==
  /\ sha3Module = "nocreate"
  /\ promise[1] = "rejected"

\* C8: the records of all operations whose summarizer failed (any way but a
\* text response) carry one and the same fallback string as their summary.
C8_SingleFallback ==
  \A i, j \in 1..Len(results) :
    (sumOutcome[results[i].id] # "text" /\ sumOutcome[results[j].id] # "text")
      => results[i].aiAnalysis = results[j].aiAnalysis

\* C9: at most one processFile operation (hashing plus summarizing) is in flight.
InFlight(o) == proc[o] \in {"hashing", "summarizing"}
C9_OneAtATime == Cardinality({o \in Ops : InFlight(o)}) <= 1

\* C10: the step that ends a processFile whose hashing failed leaves progress 0,
\* status ERROR and an error message; a processFile that starts leaves progress
\* 0, no error message and status PROCESSING; and an operation whose promise is
\* rejected never calls onProgress again.
C10_FailureResets ==
  [][\A o \in Ops :
       /\ (proc[o] = "hashing" /\ proc'[o] = "failed") =>
            (progress' = 0 /\ status' = "ERROR" /\ errorMsg' # "null")
       /\ (proc[o] = "none" /\ proc'[o] = "hashing") =>
            (progress' = 0 /\ status' = "PROCESSING" /\ errorMsg' = "null")
       /\ promise[o] = "rejected" =>
            (progressCalls'[o] = progressCalls[o] /\ promise'[o] = "rejected")]_vars

\* A read of the second chunk failed after progress was reported, and the next
\* operation completed.
C10_Witness ==
  /\ proc[1] = "failed"
  /\ error[1] = "Error reading file."
  /\ Len(progressCalls[1]) > 0
  /\ proc[2] = "completed"
  /\ status = "COMPLETED"
  /\ progress = 0

RecordsOf(rs, o) == Cardinality({i \in 1..Len(rs) : rs[i].id = o})

\* C11 (as claimed): every processFile operation that ends, completed or failed,
\* adds exactly one record to the history list.
C11_RecordPerEndedOperation ==
  [][\A o \in Ops :
       (InFlight(o) /\ proc'[o] \in {"completed", "failed"}) =>
         (Len(results') = Len(results) + 1 /\ RecordsOf(results', o) = 1)]_vars

\* C11 (amended): a processFile operation that ends with hashing succeeded adds
\* exactly one record, its own; one that ends with hashing failed adds none; no
\* operation ever has more than one record in the list.
C11_RecordPerCompletedOperation ==
  [][\A o \in Ops :
       /\ (InFlight(o) /\ proc'[o] = "completed") =>
            (Len(results') = Len(results) + 1 /\ RecordsOf(results', o) = 1)
       /\ (InFlight(o) /\ proc'[o] = "failed") =>
            (results' = results /\ RecordsOf(results', o) = 0)
       /\ RecordsOf(results', o) <= 1]_vars

C11_Witness ==
  /\ proc[1] = "completed"
  /\ proc[2] = "failed"
  /\ Len(results) = 1
  /\ results[1].id = 1

\* C12: formatBytes(0) is "0 Bytes", and for n >= 1 the unit is the one of
\* {Bytes, KB, MB, GB, TB} with the largest index i in 0..4 such that
\* n / 1024^i >= 1 (TB for every n >= 1024^4).
C12_UnitOfSet ==
  fmtResult # NotFormatted =>
    IF fmtBytes = <<0>>
    THEN fmtResult = [zero |-> TRUE, unit |-> "Bytes"]
    ELSE /\ ~fmtResult.zero
         /\ fmtResult.unit = sizes[Min(Len(fmtBytes) - 1, Len(sizes) - 1) + 1]

\* C13: the turn that consumes a chunk issues no read; every read after the
\* first is issued by the timer callback, in a turn that consumes nothing; and
\* no timer is pending while a read is outstanding (one read at a time).
C13_YieldBetweenChunks ==
  [][\A o \in Ops :
       /\ Len(updates'[o]) > Len(updates[o]) => reader'[o] # "LOADING"
       /\ (Started(o) /\ reader[o] # "LOADING" /\ reader'[o] = "LOADING") =>
            (timer[o] /\ ~timer'[o] /\ updates'[o] = updates[o])
       /\ ~(timer'[o] /\ reader'[o] = "LOADING")]_vars

\* Operation 1 is between its two chunks while the read of operation 2 is
\* outstanding.
C13_Witness ==
  /\ timer[1]
  /\ Len(updates[1]) = 1
  /\ reader[1] = "DONE"
  /\ reader[2] = "LOADING"

\* C14: hasher.hex() is called at most once, exactly once when the promise is
\* resolved, and once it has been called no update is applied, no read is
\* outstanding and no read is scheduled.
C14_FinalizedOnce ==
  [][\A o \in Ops :
       /\ hexCalls'[o] <= 1
       /\ promise'[o] = "resolved" => hexCalls'[o] = 1
       /\ hexCalls[o] >= 1 =>
            /\ updates'[o] = updates[o]
            /\ hasher'[o] = hasher[o]
            /\ reader'[o] # "LOADING"
            /\ ~timer'[o]]_vars

C14_Witness ==
  /\ hexCalls[1] = 1
  /\ promise[1] = "resolved"
  /\ Len(updates[1]) = 3

\* C15: the i-th value passed to onProgress is min(100, floor(c * 100 / size)),
\* c being the number of bytes of the file consumed by the first i chunks.
C15_FloorOfConsumed ==
  \A o \in Ops : file[o] > 0 =>
    \A i \in 1..Len(progressCalls[o]) :
      progressCalls[o][i] = Min(100, (updates[o][i][2] * 100) \div file[o])

C17_HistoryImmutable ==
  [][/\ \A o \in Ops :
          /\ (InFlight(o) /\ proc'[o] = "completed") =>
               /\ Len(results') = Len(results) + 1
               /\ results'[1].id = o
               /\ Tail(results') = results
          /\ (InFlight(o) /\ proc'[o] = "failed") => results' = results
          /\ progressCalls'[o] # progressCalls[o] => results' = results
     /\ (copiedId' # copiedId \/ copyTimer' # copyTimer) => results' = results
     /\ results' # results =>
          \/ \E o \in Ops : InFlight(o) /\ proc'[o] = "completed"
          \/ /\ results' = <<>>
             /\ status' = "IDLE"
             /\ errorMsg' = "null"
             /\ proc' = proc]_vars

\* Two records, the later one first, and a record has been copied.
C17_Witness ==
  /\ Len(results) = 2
  /\ proc[1] = "completed"
  /\ proc[2] = "completed"
  /\ copiedId = results[2].id
  /\ copyTimer

\* C18: analyzeFileMetadata is called only once the hashing of the same file
\* has resolved, with the digest it resolved with, which is also the hash of
\* the record; when the hashing is rejected it is never called and processFile
\* ends failed.
C18_SummarizerAfterHash ==
  /\ \A o \in Ops :
       /\ sumHash[o] # NoDigest => (promise[o] = "resolved" /\ sumHash[o] = digest[o])
       /\ proc[o] \in {"summarizing", "completed"} => sumHash[o] # NoDigest
       /\ promise[o] = "rejected" =>
            /\ sumHash[o] = NoDigest
            /\ sumOutcome[o] = "none"
            /\ proc[o] \in {"hashing", "failed"}
  /\ \A i \in 1..Len(results) : results[i].hash = sumHash[results[i].id]

C18_Witness ==
  /\ proc[1] = "completed"
  /\ Len(results) = 1
  /\ results[1].hash = HasherHex(<<<<0, chunkSize + 1>>>>)
  /\ proc[2] = "failed"
  /\ sumHash[2] = NoDigest

\* C19: status is PROCESSING exactly while some processFile operation is in
\* flight, and while an operation stays in flight the displayed progress is
\* never lowered.
C19_StatusReflectsInFlight ==
  [][/\ (\E o \in Ops : proc'[o] \in {"hashing", "summarizing"}) <=> status' = "PROCESSING"
     /\ (\E o \in Ops : InFlight(o) /\ proc'[o] \in {"hashing", "summarizing"}) =>
          progress' >= progress]_vars

====
